---- MODULE Spec2Model ----
(***************************************************************************)
(* Upload-and-convert workflow of frontend/app/page.tsx (component Home).   *)
(*                                                                          *)
(* The React state of Home (selectedFile, isProcessing, processingProgress, *)
(* processingComplete, pdfUrl) is the state of the model.  Every event      *)
(* handler is one action; the async function handleStartProcess is split    *)
(* at its await points and timer callbacks.  Time is the wall clock read    *)
(* by Date.now(), in milliseconds; a timer callback runs at or after its    *)
(* deadline, never before.                                                  *)
(***************************************************************************)
EXTENDS Integers, Sequences, FiniteSets

\* ---------------------------------------------------------------- bounds
MaxRuns == 2            \* invocations of handleStartProcess explored
MaxTime == 20000        \* past it the clock moves only towards a pending deadline (ms)
Quantum == 10000        \* granularity of the clock (ms)
ProgressScale == 5      \* processingProgress is counted in 1/ProgressScale percent

\* ------------------------------------------------------ program constants
minTime == 20000        \* page.tsx:173
CompletionDelay == 500  \* page.tsx:186
HoldThreshold == 90     \* page.tsx:150
FullProgress == 100     \* page.tsx:182
RandomSpanTimesTwo == 3 \* page.tsx:151, Math.random() * 1.5 is in [0, 3/2)

null == 0

\* ------------------------------------------------------------ input files
\* A File: its name (a sequence of characters) and declared MIME type.
Files ==
  << [name |-> <<"s", ".", "m", "p", "3">>, type |-> "audio/mpeg"],
     [name |-> <<"v", ".", "o", "g", "g">>, type |-> ""],
     [name |-> <<"c", ".", "t", "x", "t">>, type |-> "text/plain"] >>

FileIds == 1..Len(Files)

\* String.prototype.endsWith
endsWith(s, suffix) ==
  /\ Len(s) >= Len(suffix)
  /\ SubSeq(s, Len(s) - Len(suffix) + 1, Len(s)) = suffix

ExtMp3 == <<".", "m", "p", "3">>
ExtWav == <<".", "w", "a", "v">>

\* The condition of handleDrop on a dropped file.
DropAccepts(f) ==
  \/ Files[f].type = "audio/mpeg"
  \/ Files[f].type = "audio/wav"
  \/ Files[f].type = "audio/ogg"
  \/ endsWith(Files[f].name, ExtMp3)
  \/ endsWith(Files[f].name, ExtWav)

\* handleFileChange takes whatever file the change event carries; the accept
\* attribute of the input is a hint to the file dialog, not a check.
PickerAccepts(f) == TRUE

\* ------------------------------------------------------------------ state
VARIABLES
  selectedFile,        \* useState<File | null>: null or a file id
  isProcessing,        \* useState(false)
  processingProgress,  \* useState(0), in 1/ProgressScale percent
  processingComplete,  \* useState(false)
  pdfUrl,              \* useState<string | null>: null or an object URL
  runs,                \* the invocations of handleStartProcess
  objectUrls,          \* object URLs created and not revoked
  now,                 \* Date.now()
  alertMsg,            \* the alert() raised by the last step, "none" if none
  download,            \* the link clicked by the last step, NoDownload if none
  consoleMsg,          \* the message of the error logged by the last step, <<>> if none
  posts                \* the number of POSTs sent to /process-audio

vars == << selectedFile, isProcessing, processingProgress, processingComplete,
           pdfUrl, runs, objectUrls, now, alertMsg, download, consoleMsg, posts >>

ui == << selectedFile, isProcessing, processingProgress, processingComplete, pdfUrl >>

RunIds == 1..MaxRuns

\* An invocation that has not been made yet.
NotStarted ==
  [pc |-> "idle", file |-> null, startTime |-> 0, interval |-> FALSE,
   elapsedTime |-> 0, deadline |-> 0]

\* An invocation that has returned and whose timers are gone: how it ended,
\* the file it submitted and the elapsed time it measured.
Returned(how, file, elapsed) ==
  [pc |-> how, file |-> file, startTime |-> 0, interval |-> FALSE,
   elapsedTime |-> elapsed, deadline |-> 0]

\* No link is clicked.
NoDownload == [href |-> null, name |-> ""]

\* Nothing is logged.
NoLog == << >>

\* A step that raises no alert, clicks no link and logs nothing.
Silent == alertMsg' = "none" /\ download' = NoDownload /\ consoleMsg' = NoLog

Init ==
  /\ selectedFile = null
  /\ isProcessing = FALSE
  /\ processingProgress = 0
  /\ processingComplete = FALSE
  /\ pdfUrl = null
  /\ runs = [r \in RunIds |-> NotStarted]
  /\ objectUrls = {}
  /\ now = 0
  /\ alertMsg = "none"
  /\ download = NoDownload
  /\ consoleMsg = NoLog
  /\ posts = 0

\* ------------------------------------------------------------ file input
\* onChange of the hidden file input.  Its label ("Browse Files") is rendered
\* only while no file is selected.
handleFileChange(f) ==
  /\ selectedFile = null
  /\ IF f # null /\ PickerAccepts(f)
       THEN /\ selectedFile' = f
            /\ processingComplete' = FALSE
            /\ pdfUrl' = null
       ELSE UNCHANGED << selectedFile, processingComplete, pdfUrl >>
  /\ Silent
  /\ UNCHANGED << isProcessing, processingProgress, runs, objectUrls, now, posts >>

\* onDrop of the upload area, rendered in every state.
handleDrop(f) ==
  /\ IF f # null /\ DropAccepts(f)
       THEN /\ selectedFile' = f
            /\ processingComplete' = FALSE
       ELSE UNCHANGED << selectedFile, processingComplete >>
  /\ Silent
  /\ UNCHANGED << isProcessing, processingProgress, pdfUrl, runs, objectUrls, now, posts >>

\* onClick of the clear button, rendered while a file is selected.
clearFile ==
  /\ selectedFile # null
  /\ selectedFile' = null
  /\ Silent
  /\ UNCHANGED << isProcessing, processingProgress, processingComplete, pdfUrl, runs, objectUrls, now, posts >>

\* onClick of "New Conversion", rendered while processingComplete.
newConversion ==
  /\ processingComplete
  /\ selectedFile' = null
  /\ processingComplete' = FALSE
  /\ pdfUrl' = null
  /\ Silent
  /\ UNCHANGED << isProcessing, processingProgress, runs, objectUrls, now, posts >>

\* A download handler that drops the reference once the link is clicked.
handleDownloadDropsUrl ==
  /\ processingComplete
  /\ IF pdfUrl # null
       THEN /\ download' = [href |-> pdfUrl, name |-> "sheet_music.pdf"]
            /\ alertMsg' = "none"
       ELSE /\ alertMsg' = "Download not ready"
            /\ download' = NoDownload
  /\ pdfUrl' = null
  /\ consoleMsg' = NoLog
  /\ UNCHANGED << selectedFile, isProcessing, processingProgress, processingComplete,
                  runs, objectUrls, now, posts >>

\* onClick of "Download Tablature", rendered while processingComplete.
handleDownload ==
  /\ processingComplete
  /\ IF pdfUrl # null
       THEN /\ download' = [href |-> pdfUrl, name |-> "sheet_music.pdf"]
            /\ alertMsg' = "none"
       ELSE /\ alertMsg' = "Download not ready"
            /\ download' = NoDownload
  /\ consoleMsg' = NoLog
  /\ UNCHANGED << ui, runs, objectUrls, now, posts >>

\* ----------------------------------------------------- handleStartProcess
\* p percent, in the unit of processingProgress.
Percent(p) == p * ProgressScale

\* An updater that starts over once the threshold is reached.
SimulatorStepWraps(prev, inc) ==
  IF prev >= Percent(HoldThreshold) THEN 0 ELSE prev + inc

\* An updater that holds at 100 instead of 90.
SimulatorStepHoldsLate(prev, inc) ==
  IF prev >= Percent(FullProgress) THEN prev ELSE prev + inc

\* One step of the callback given to setInterval: the updater of
\* setProcessingProgress applied to prev with Math.random() * 1.5 = inc.
SimulatorStep(prev, inc) ==
  IF prev >= Percent(HoldThreshold) THEN prev ELSE prev + inc

\* The values Math.random() * 1.5 can take, in 1/ProgressScale percent.
RandomValues == { k \in 0..(2 * ProgressScale) : 2 * k < RandomSpanTimesTwo * ProgressScale }

\* The draws explored: the smallest and the largest value.
Increments ==
  { k \in RandomValues : (\A j \in RandomValues : k <= j) \/ (\A j \in RandomValues : k >= j) }

\* A success write that stops one percent short.
FinalProgressShort == Percent(FullProgress - 1)

\* The value written by setProcessingProgress(100).
FinalProgress == Percent(FullProgress)

\* A floor timer that does not wait.
FloorDelayNone(elapsed) == 0

\* The delay given to setTimeout when the response came before the floor.
FloorDelay(elapsed) == minTime - elapsed

\* The run the next click on "Convert to Tablature" starts.
NextRun(r) ==
  /\ runs[r].pc = "idle"
  /\ \A q \in RunIds : q < r => runs[q].pc # "idle"

\* A button that stays rendered while a conversion is processing.
StartEnabledWhileProcessing == selectedFile # null /\ ~processingComplete

\* The button "Convert to Tablature" is rendered.
StartEnabled == selectedFile # null /\ ~isProcessing /\ ~processingComplete

\* onClick of "Convert to Tablature" up to the first await: the state is
\* set, the start time read, the interval started and the POST sent.
handleStartProcess(r) ==
  /\ StartEnabled
  /\ NextRun(r)
  /\ isProcessing' = TRUE
  /\ processingProgress' = 0
  /\ runs' = [runs EXCEPT ![r] = [pc |-> "fetch", file |-> selectedFile,
                                  startTime |-> now, interval |-> TRUE,
                                  elapsedTime |-> 0, deadline |-> 0]]
  /\ posts' = posts + 1
  /\ Silent
  /\ UNCHANGED << selectedFile, processingComplete, pdfUrl, objectUrls, now >>

\* The callback of setInterval(..., 200), while the interval is not cleared.
intervalTick(r) ==
  /\ runs[r].interval
  /\ \E inc \in Increments :
       processingProgress' = SimulatorStep(processingProgress, inc)
  /\ Silent
  /\ UNCHANGED << selectedFile, isProcessing, processingComplete, pdfUrl, runs, objectUrls, now, posts >>

\* await fetch(...) resolves with a response; ok is response.ok.
fetchResolved(r, ok) ==
  /\ runs[r].pc = "fetch"
  /\ runs' = [runs EXCEPT ![r].pc = IF ok THEN "blob" ELSE "text"]
  /\ Silent
  /\ UNCHANGED << ui, objectUrls, now, posts >>

\* The bodies a response that is not ok may carry.
Bodies == {"decode error", "Internal Server Error"}

\* The message of new Error(`Processing failed: ${errorText}`), by segments.
ProcessingFailed(errorText) == << "Processing failed: ", errorText >>

\* The message of the error a rejected fetch, text() or blob() throws.
TransportError == << "Failed to fetch" >>

\* A catch block that forgets setProcessingProgress(0).
CatchKeepsProgress(r, error) ==
  /\ consoleMsg' = error
  /\ alertMsg' = "Error processing file. Please check backend connection."
  /\ download' = NoDownload
  /\ runs' = [runs EXCEPT ![r] = Returned("failed", runs[r].file, 0)]
  /\ isProcessing' = FALSE
  /\ UNCHANGED << selectedFile, processingProgress, processingComplete, pdfUrl,
                  objectUrls, now, posts >>

\* A catch block that sends the request once more.
CatchResends(r, error) ==
  /\ consoleMsg' = error
  /\ alertMsg' = "Error processing file. Please check backend connection."
  /\ download' = NoDownload
  /\ runs' = [runs EXCEPT ![r] = Returned("failed", runs[r].file, 0)]
  /\ isProcessing' = FALSE
  /\ processingProgress' = 0
  /\ posts' = posts + 1
  /\ UNCHANGED << selectedFile, processingComplete, pdfUrl, objectUrls, now >>

\* The catch block, entered with an error of message error.
Catch(r, error) ==
  /\ consoleMsg' = error
  /\ alertMsg' = "Error processing file. Please check backend connection."
  /\ download' = NoDownload
  /\ runs' = [runs EXCEPT ![r] = Returned("failed", runs[r].file, 0)]
  /\ isProcessing' = FALSE
  /\ processingProgress' = 0
  /\ UNCHANGED << selectedFile, processingComplete, pdfUrl, objectUrls, now, posts >>

\* await fetch(...) rejects: transport error.
fetchRejected(r) ==
  /\ runs[r].pc = "fetch"
  /\ Catch(r, TransportError)

\* await response.text() settles on a response that is not ok: the error
\* made of the body is thrown, or the rejection propagates, into the catch
\* block.
textSettled(r) ==
  /\ runs[r].pc = "text"
  /\ \/ \E errorText \in Bodies : Catch(r, ProcessingFailed(errorText))
     \/ Catch(r, TransportError)

\* await response.blob() rejects.
blobRejected(r) ==
  /\ runs[r].pc = "blob"
  /\ Catch(r, TransportError)

\* A success path that forgets clearInterval.
FinalizeKeepsInterval(r, elapsed) ==
  /\ objectUrls' = objectUrls \cup {r}
  /\ pdfUrl' = r
  /\ processingProgress' = FinalProgress
  /\ runs' = [runs EXCEPT ![r].pc = "timeout",
                          ![r].elapsedTime = elapsed,
                          ![r].deadline = now + CompletionDelay]
  /\ Silent
  /\ UNCHANGED << selectedFile, isProcessing, processingComplete, now, posts >>

\* From createObjectURL to the setTimeout of the completion callback.  The
\* object URL created by run r is named r.
Finalize(r, elapsed) ==
  /\ objectUrls' = objectUrls \cup {r}
  /\ pdfUrl' = r
  /\ processingProgress' = FinalProgress
  /\ runs' = [runs EXCEPT ![r].pc = "timeout", ![r].interval = FALSE,
                          ![r].elapsedTime = elapsed,
                          ![r].deadline = now + CompletionDelay]
  /\ Silent
  /\ UNCHANGED << selectedFile, isProcessing, processingComplete, now, posts >>

\* await response.blob() resolves: the elapsed time is compared to the floor.
blobResolved(r) ==
  /\ runs[r].pc = "blob"
  /\ LET elapsed == now - runs[r].startTime IN
       IF elapsed < minTime
         THEN /\ runs' = [runs EXCEPT ![r].pc = "floor",
                                      ![r].elapsedTime = elapsed,
                                      ![r].deadline = now + FloorDelay(elapsed)]
              /\ Silent
              /\ UNCHANGED << ui, objectUrls, now, posts >>
         ELSE Finalize(r, elapsed)

\* The timer of the floor fires, at or after its deadline.
floorElapsed(r) ==
  /\ runs[r].pc = "floor"
  /\ now >= runs[r].deadline
  /\ Finalize(r, runs[r].elapsedTime)

\* A completion callback that leaves the processing flag set.
completionTimeoutKeepsProcessing(r) ==
  /\ runs[r].pc = "timeout"
  /\ now >= runs[r].deadline
  /\ processingComplete' = TRUE
  /\ runs' = [runs EXCEPT ![r] = Returned("completed", runs[r].file, runs[r].elapsedTime)]
  /\ Silent
  /\ UNCHANGED << selectedFile, isProcessing, processingProgress, pdfUrl, objectUrls, now, posts >>

\* The callback of setTimeout(..., 500) runs, at or after its deadline.
completionTimeout(r) ==
  /\ runs[r].pc = "timeout"
  /\ now >= runs[r].deadline
  /\ isProcessing' = FALSE
  /\ processingComplete' = TRUE
  /\ runs' = [runs EXCEPT ![r] = Returned("completed", runs[r].file, runs[r].elapsedTime)]
  /\ Silent
  /\ UNCHANGED << selectedFile, processingProgress, pdfUrl, objectUrls, now, posts >>

\* ------------------------------------------------------------------ clock
\* A timer is set and its deadline is not reached.
TimerPending == \E r \in RunIds : runs[r].pc \in {"floor", "timeout"} /\ runs[r].deadline > now

\* Time passes.  Past MaxTime the clock moves only towards a pending deadline.
advanceClock ==
  /\ now < MaxTime \/ TimerPending
  /\ now' = now + Quantum
  /\ Silent
  /\ UNCHANGED << ui, runs, objectUrls, posts >>

Next ==
  \/ \E f \in FileIds \cup {null} : handleFileChange(f)
  \/ \E f \in FileIds \cup {null} : handleDrop(f)
  \/ clearFile
  \/ newConversion
  \/ handleDownload
  \/ \E r \in RunIds : handleStartProcess(r)
  \/ \E r \in RunIds : intervalTick(r)
  \/ \E r \in RunIds, ok \in BOOLEAN : fetchResolved(r, ok)
  \/ \E r \in RunIds : fetchRejected(r)
  \/ \E r \in RunIds : textSettled(r)
  \/ \E r \in RunIds : blobRejected(r)
  \/ \E r \in RunIds : blobResolved(r)
  \/ \E r \in RunIds : floorElapsed(r)
  \/ \E r \in RunIds : completionTimeout(r)
  \/ advanceClock

Spec == Init /\ [][Next]_vars

\* ------------------------------------------------------------------ scheduling
\* The request of run r settles: each promise the handler awaits (fetch,
\* response.text(), response.blob()) resolves or rejects.
RequestSettles(r) ==
  \/ \E ok \in BOOLEAN : fetchResolved(r, ok)
  \/ fetchRejected(r)
  \/ textSettled(r)
  \/ blobRejected(r)
  \/ blobResolved(r)

\* A timer of run r that is due runs its callback.
TimerFires(r) == floorElapsed(r) \/ completionTimeout(r)

\* The event loop runs a continuation of handleStartProcess that is ready.
EventLoop == \E r \in RunIds : RequestSettles(r) \/ TimerFires(r)

\* The program under an event loop that settles every request, lets time
\* pass and runs every due timer callback.  What the user does, and the
\* ticks of the simulator, are left unconstrained.
FairSpec == Spec /\ WF_vars(advanceClock) /\ WF_vars(EventLoop)

\* ================================================================ claims
\* The states of the workflow, read off the flags the page renders from.
Complete == processingComplete

\* ------------------------------------------------------------------- C1
\* C1: the workflow enters Complete (processingComplete becomes true) only
\* in the completion callback of a run whose request has resolved, and at
\* least the floor duration (20 s) after that run's start action, also when
\* the response arrived with no time elapsed.
C1_CompleteOnlyAfterFloor ==
  [][ (~processingComplete /\ processingComplete') =>
        \E r \in RunIds :
          /\ runs[r].pc = "timeout"
          /\ runs'[r].pc = "completed"
          /\ now - runs[r].startTime >= 20000 ]_vars

\* Complete was entered by a run whose response arrived at once.
C1_Witness ==
  /\ processingComplete
  /\ \E r \in RunIds : runs[r].pc = "completed" /\ runs[r].elapsedTime = 0

C3_DiscardedUrlRevoked == \A u \in objectUrls : u = pdfUrl

\* ------------------------------------------------------------------- C4
ExtOgg == <<".", "o", "g", "g">>

\* The declared MIME type is one of the three audio types.
AllowedType(f) == Files[f].type \in {"audio/mpeg", "audio/wav", "audio/ogg"}

\* The name ends in one of the three extensions.
AllowedExtension(f) ==
  \/ endsWith(Files[f].name, ExtMp3)
  \/ endsWith(Files[f].name, ExtWav)
  \/ endsWith(Files[f].name, ExtOgg)

\* C4: selecting a file of neither an allowed MIME type nor an allowed
\* extension, through the picker or by a drop, leaves the workflow state
\* (file, flags, progress, result reference) unchanged.
C4_UnsupportedRejected ==
  [][ \A f \in FileIds :
        (~AllowedType(f) /\ ~AllowedExtension(f)) =>
          ((handleFileChange(f) \/ handleDrop(f)) => UNCHANGED ui) ]_vars

\* ------------------------------------------------------------------- C5
\* C5: a file of an allowed MIME type or an allowed extension is accepted by
\* the picker and by a drop alike, and becomes the selected file.
C5_SupportedAccepted ==
  [][ \A f \in FileIds :
        (AllowedType(f) \/ AllowedExtension(f)) =>
          ((handleFileChange(f) \/ handleDrop(f)) => selectedFile' = f) ]_vars

\* ------------------------------------------------------------------- C6
\* C6: whenever the workflow is Processing or Complete a file is selected.
C6_FileHeldOutsideIdle == (isProcessing \/ processingComplete) => selectedFile # null

\* ------------------------------------------------------------------- C7
\* C7: a result reference (pdfUrl) is held only in Complete.
C7_ResultOnlyInComplete == pdfUrl # null => Complete

\* ------------------------------------------------------------------- C8
\* C8: whenever the workflow is Complete a result reference is held, and the
\* download action never reports that the download is not ready.
C8_ResultHeldInComplete ==
  /\ Complete => pdfUrl # null
  /\ alertMsg # "Download not ready"

\* ------------------------------------------------------------------- C9
\* The step selects file f: the picker delivers it, or it is dropped and
\* passes the check of the drop handler.
Selects(f) == handleFileChange(f) \/ (handleDrop(f) /\ DropAccepts(f))

\* C9: a file selection made while not Processing leaves the workflow in
\* FileSelected: the new file held, neither Processing nor Complete, and no
\* result reference held.
C9_SelectionGivesFileSelected ==
  [][ \A f \in FileIds :
        (~isProcessing /\ Selects(f)) =>
          /\ selectedFile' = f
          /\ ~isProcessing'
          /\ ~processingComplete'
          /\ pdfUrl' = null ]_vars

\* ------------------------------------------------------------------ C10
\* C10: right after the clear-file action no file is held, the workflow is
\* neither Processing nor Complete and no result reference is held.
C10_ClearResetsToIdle ==
  [][ clearFile =>
        /\ selectedFile' = null
        /\ ~isProcessing'
        /\ ~processingComplete'
        /\ pdfUrl' = null ]_vars

\* ------------------------------------------------------------------ C11
\* Run r fails in this step.
Fails(r) == runs[r].pc # "failed" /\ runs'[r].pc = "failed"

\* C11: the step in which a run fails is taken from an await of the request
\* (never from the wait for the floor), takes no time, and leaves the
\* workflow not Processing, with no simulator timer and ProgressValue 0.
C11_FailureLeavesProcessing ==
  [][ \A r \in RunIds :
        Fails(r) =>
          /\ runs[r].pc \in {"fetch", "text", "blob"}
          /\ now' = now
          /\ ~isProcessing'
          /\ \A q \in RunIds : ~runs'[q].interval
          /\ processingProgress' = 0 ]_vars

\* A run has just failed, before the floor duration could have elapsed.
C11_Witness ==
  /\ alertMsg = "Error processing file. Please check backend connection."
  /\ \E r \in RunIds : runs[r].pc = "failed"
  /\ now < 20000
  /\ ~isProcessing
  /\ processingProgress = 0

\* ------------------------------------------------------------------ C12
\* The message, given by its segments, contains the text.
Contains(msg, text) == \E i \in 1..Len(msg) : msg[i] = text

\* C12: when a response that is not ok carried the body errorText, the
\* message shown to the user (the alert) contains errorText.
C12_AlertContainsBody ==
  [][ \A errorText \in Bodies :
        ((\E r \in RunIds : textSettled(r)) /\ consoleMsg' = ProcessingFailed(errorText))
          => Contains(<< alertMsg' >>, errorText) ]_vars

\* ------------------------------------------------------------------ C13
\* C13: the download action clicks a link named sheet_music.pdf on the held
\* reference when one is held and alerts "Download not ready" when none is
\* held; a step that does either leaves the file, the flags, the progress
\* and the result reference unchanged.
C13_DownloadReportsOrSaves ==
  [][ /\ (handleDownload /\ pdfUrl # null) =>
           /\ download' = [href |-> pdfUrl, name |-> "sheet_music.pdf"]
           /\ alertMsg' # "Download not ready"
      /\ (handleDownload /\ pdfUrl = null) =>
           /\ alertMsg' = "Download not ready"
           /\ download' = NoDownload
      /\ (download' # NoDownload \/ alertMsg' = "Download not ready") =>
           UNCHANGED ui ]_vars

\* The download action has just reported that no result is held.
C13_Witness ==
  /\ alertMsg = "Download not ready"
  /\ download = NoDownload
  /\ pdfUrl = null

\* ------------------------------------------------------------------ C14
\* C14: right after a run fails, the file it submitted is still selected,
\* the workflow is neither Processing nor Complete, and the start action is
\* enabled.
C14_RetryAfterFailure ==
  [][ \A r \in RunIds :
        Fails(r) =>
          /\ selectedFile' = runs[r].file
          /\ ~isProcessing'
          /\ ~processingComplete'
          /\ StartEnabled' ]_vars

\* ------------------------------------------------------------------ C15
\* C15: between two states in which the workflow is Processing
\* ProgressValue does not decrease, and ProgressValue is always within
\* [0, 100].
C15_ProgressMonotone ==
  [][ /\ (isProcessing /\ isProcessing') => processingProgress' >= processingProgress
      /\ processingProgress' >= 0
      /\ processingProgress' <= Percent(100) ]_vars

\* Processing, with the simulator on hold above the threshold while the
\* request is still awaited.
C15_Witness ==
  /\ isProcessing
  /\ processingProgress >= Percent(90)
  /\ processingProgress < Percent(100)
  /\ \E r \in RunIds : runs[r].pc = "fetch" /\ runs[r].interval

\* ------------------------------------------------------------------ C16
\* C16: a simulator tick at or above the hold threshold (90) leaves
\* ProgressValue unchanged; a step that changes ProgressValue without any run
\* moving on (a tick) starts below the threshold, adds less than 1.5, and
\* writes a value below the soft ceiling 91.5 and below 100.
C16_SimulatorBelowCeiling ==
  [][ /\ ((\E r \in RunIds : intervalTick(r)) /\ processingProgress >= Percent(90)) =>
           processingProgress' = processingProgress
      /\ (processingProgress' # processingProgress /\ runs' = runs) =>
           /\ processingProgress < Percent(90)
           /\ processingProgress' > processingProgress
           /\ 2 * (processingProgress' - processingProgress) < 3 * ProgressScale
           /\ 2 * processingProgress' < (2 * 90 + 3) * ProgressScale
           /\ processingProgress' < Percent(100) ]_vars

\* The simulator runs and its last write went past the threshold.
C16_Witness ==
  /\ \E r \in RunIds : runs[r].interval
  /\ processingProgress > Percent(90)
  /\ processingProgress < Percent(100)

\* ------------------------------------------------------------------ C17
\* A start action is accepted in this step.
Starts == \E r \in RunIds : runs[r].pc = "idle" /\ runs'[r].pc = "fetch"

\* C17: when ProgressValue is written to 100 no simulator timer is left
\* running; while it is 100 none runs; and the only step that changes it
\* from 100 is the next start action.
C17_HundredIsFinal ==
  [][ /\ (processingProgress # Percent(100) /\ processingProgress' = Percent(100)) =>
           \A r \in RunIds : ~runs'[r].interval
      /\ processingProgress = Percent(100) => \A r \in RunIds : ~runs[r].interval
      /\ (processingProgress = Percent(100) /\ processingProgress' # Percent(100)) =>
           Starts ]_vars

\* The success write is done and the completion callback is still pending.
C17_Witness ==
  /\ isProcessing
  /\ processingProgress = Percent(100)
  /\ \E r \in RunIds : runs[r].pc = "timeout" /\ ~runs[r].interval

\* ------------------------------------------------------------------ C18
\* The request of run r is outstanding.
InFlight(r) == runs[r].pc \in {"fetch", "text", "blob"}

\* Run r waits for the floor timer or for the completion callback.
CallbackPending(r) == runs[r].pc \in {"floor", "timeout"}

\* C18: at most one request is outstanding and at most one simulator timer
\* runs, and while a request is outstanding, a simulator timer runs or a
\* callback of a run is pending, the start action cannot be taken.
C18_OneRequestOneTimer ==
  /\ Cardinality({r \in RunIds : InFlight(r)}) <= 1
  /\ Cardinality({r \in RunIds : runs[r].interval}) <= 1
  /\ (\E r \in RunIds : InFlight(r) \/ runs[r].interval \/ CallbackPending(r)) =>
       ~ENABLED (\E r \in RunIds : handleStartProcess(r))

\* A second request is outstanding after a first run has returned, with a
\* file selected and the workflow not Complete.
C18_Witness ==
  /\ \E r \in RunIds : InFlight(r) /\ runs[r].interval
  /\ \E q \in RunIds : runs[q].pc \in {"failed", "completed"}
  /\ selectedFile # null
  /\ ~processingComplete

\* ------------------------------------------------------------------ C19
\* C19: a simulator timer runs only while the workflow is Processing the
\* file the timer's run submitted: once the run has succeeded or failed, or
\* the file was cleared or replaced, no timer is active.
C19_TimerReleased ==
  \A r \in RunIds :
    runs[r].interval => (isProcessing /\ selectedFile = runs[r].file)

\* ------------------------------------------------------------------ C20
\* C20: a POST is sent only by a start action, one per start action; the
\* step in which a run fails sends none; and the number of POSTs sent equals
\* the number of start actions accepted.
C20_NoAutomaticRetry ==
  [][ /\ posts' # posts => (Starts /\ posts' = posts + 1)
      /\ Starts => posts' = posts + 1
      /\ \A r \in RunIds : Fails(r) => posts' = posts
      /\ posts' = Cardinality({r \in RunIds : runs'[r].pc # "idle"}) ]_vars

\* A request has failed and the user has started another one: two POSTs.
C20_Witness ==
  /\ \E r \in RunIds : runs[r].pc = "failed"
  /\ \E q \in RunIds : InFlight(q)
  /\ posts = 2

\* ------------------------------------------------------------------ C21
\* A run is between its start and its return.
Active(r) == runs[r].pc \in {"fetch", "text", "blob", "floor", "timeout"}

\* The step that has just been taken reported a failed conversion.
FailedOutcome == alertMsg = "Error processing file. Please check backend connection."

\* C21: when the request settles and timers fire, Processing is always
\* eventually left: the workflow gets to Complete or to the failed outcome,
\* and there isProcessing is false, no run is still under way and no
\* simulator timer is running.
C21_ProcessingEventuallyLeft ==
  isProcessing ~>
    /\ ~isProcessing
    /\ \A r \in RunIds : ~Active(r) /\ ~runs[r].interval
    /\ processingComplete \/ FailedOutcome

\* Both outcomes have happened: one run failed, a later one completed.
C21_Witness ==
  /\ ~isProcessing
  /\ processingComplete
  /\ \E r \in RunIds : runs[r].pc = "failed"
  /\ \E q \in RunIds : runs[q].pc = "completed" /\ ~runs[q].interval

\* ------------------------------------------------------------------ C22
\* C22: whenever the workflow is Complete and holds a result, the run that
\* produced the result (the object URL bears its number) submitted the file
\* that is selected now.
C22_ResultMatchesSelectedFile ==
  \A r \in RunIds :
    (processingComplete /\ pdfUrl = r) => runs[r].file = selectedFile

====
